---- MODULE Spec2Model ----
(***************************************************************************)
(* Model of detector.py: the camera loop of main(), the report file, the   *)
(* cooldown on alerts and the daemon threads that run                      *)
(* speak_message_then_alarm.                                                *)
(*                                                                         *)
(* Time is time.time() in whole seconds since the epoch; it never goes     *)
(* back.  One step of Iterate is one pass through the body of the          *)
(* `while True` loop, except that a pass that starts an alert thread stops *)
(* right after Thread.start() and is finished by AfterStart: the new       *)
(* thread runs beside the rest of that pass.  Each blocking call of an     *)
(* alert thread is one step of that thread.  main() is the last statement  *)
(* of the script: when it returns or raises, the interpreter exits and the *)
(* alert threads, which are daemon threads, are abandoned where they are.  *)
(***************************************************************************)
EXTENDS Integers, Sequences, FiniteSets, TLC

\* ---------- Configuration (detector.py:16-24) ----------
ALERT_COOLDOWN == 5
HUMAN_ALERT_DURATION == 30
SPEAK_REPEAT == 2

\* ---------- Bounds of the model ----------
MaxTime == 10
MaxSamples == 3
MaxFaces == 1
MaxPlays == 2      \* plays of the alarm are counted up to MaxPlays
MaxDuration == 3   \* play_wave alone is called with repeat_for in -1..MaxDuration

VARIABLES
    pc,              \* position of main(): "start", "loop" (top of the loop
                     \*   body), "started" (after Thread.start()), "exited"
    exitReason,      \* how main() left: "none", "no_cascade", "no_camera",
                     \*   "read_fail", "quit", "exception"
    cap,             \* the camera: "none", "failed", "open", "released"
    alert_wave,      \* "None" or "wave"
    prev_state,      \* "None", "human", "no_face"
    last_alert_time, \* 0 until the first alert
    clock,           \* time.time()
    report,          \* report.csv: [exists, lines]
    episodes,        \* the alert threads, in the order they were started
    warnings,        \* number of [WARN] lines printed, per capability
    nSamples,        \* frames read so far
    state,           \* state of the last frame: "None", "human", "no_face"
    taken,           \* the last frame took the `state != prev_state` branch
    nPresent,        \* completed state changes into "human"
    firstPresentAt,  \* time of the first completed change into "human", or -1
    appendFailed,    \* an append to the report has failed
    now              \* the local `now` of a pass stopped at "started", else -1

vars == <<pc, exitReason, cap, alert_wave, prev_state, last_alert_time, clock,
          report, episodes, warnings, nSamples, state, taken, nPresent,
          firstPresentAt, appendFailed, now>>

\* ---------- The report file ----------
\* the row ensure_report_exists writes: timestamp, detection, face_count, notes
Header == [kind |-> "header"]

ReportFiles ==
    { [exists |-> FALSE, lines |-> <<>>],
      [exists |-> TRUE,  lines |-> <<Header>>],
      [exists |-> TRUE,  lines |-> <<>>] }

\* an initialisation that opens the file with "w" on every run
ensure_report_exists_rewrite(f) == [exists |-> TRUE, lines |-> <<Header>>]

\* ensure_report_exists: writes the header only when the file is absent
ensure_report_exists(f) ==
    IF ~f.exists THEN [exists |-> TRUE, lines |-> <<Header>>] ELSE f

\* the row log_event appends
LogRow(ts, detection, face_count, notes) ==
    [kind |-> "row", ts |-> ts, detection |-> detection, face_count |-> face_count,
     notes |-> notes]

\* log_event: open(path, "a") creates the file if needed and appends one row
log_event(f, ts, detection, face_count, notes) ==
    [exists |-> TRUE, lines |-> Append(f.lines, LogRow(ts, detection, face_count, notes))]

\* a log_event that catches the error and goes on
log_event_raises_swallowed(io_ok) == FALSE

\* log_event has no handler of its own: a failed open or write raises
log_event_raises(io_ok) == ~io_ok

DataRows(f) == SelectSeq(f.lines, LAMBDA l : l.kind = "row")

\* ---------- The camera loop ----------
StateOf(face_count) == IF face_count > 0 THEN "human" ELSE "no_face"

\* a loop that skips the comparison while nothing is remembered
StateChanged_afterFirst(st, prev) == prev # "None" /\ st # prev

\* a loop that reports on every frame with a face
StateChanged_everyHuman(st, prev) == st # prev \/ st = "human"

StateChanged(st, prev) == st # prev

\* a loop with line 117 moved under the `if` of line 120
LogsOn_alerting(st) ==
    st = "human" /\ clock - last_alert_time >= ALERT_COOLDOWN

\* a loop that also logs the change to "no_face"
LogsOn_always(st) == TRUE

LogsOn(st) == st = "human"

\* a cooldown one second short
CooldownElapsed_short(t, last) == t - last >= ALERT_COOLDOWN - 1

\* a cooldown that needs strictly more than ALERT_COOLDOWN
CooldownElapsed_strict(t, last) == t - last > ALERT_COOLDOWN

\* a loop without the cooldown
CooldownElapsed_none(t, last) == TRUE

\* a loop that also waits for the threads in flight
CooldownElapsed_idle(t, last) ==
    /\ t - last >= ALERT_COOLDOWN
    /\ \A i \in DOMAIN episodes : episodes[i].phase \in {"done", "abandoned"}

CooldownElapsed(t, last) == t - last >= ALERT_COOLDOWN

InLoop == {"loop", "started"}

\* a loop that joins the alert thread it started
DriverRunnable_join ==
    /\ pc \in InLoop
    /\ \A i \in DOMAIN episodes : episodes[i].phase \in {"done", "abandoned"}

\* the loop runs whenever main() is in it: Thread.start() does not join
DriverRunnable == pc \in InLoop

\* a loop without line 127
AlertTimeAfterStart_stale(t, last) == last

\* line 127, after Thread.start(): last_alert_time = now
AlertTimeAfterStart(t, last) == t

\* line 127 moved out of the `if` of line 120
AlertTimeWhenSuppressed_set(t, last) == t

\* line 127 is inside the `if` of line 120: a change into "human" within the
\* cooldown leaves last_alert_time as it was
AlertTimeWhenSuppressed(t, last) == last

\* a release placed after the loop instead of in a finally clause
ReleaseOnExit_afterLoop(reason) == IF reason = "exception" THEN "open" ELSE "released"

\* the finally clause releases the camera on every way out of the loop
ReleaseOnExit(reason) == "released"

\* ---------- The alert threads ----------
NewEpisode(t, wave, duration, repeat) ==
    [startedAt |-> t, wave |-> wave, duration |-> duration, repeat |-> repeat,
     phase |-> "init", said |-> 0, spoken |-> 0, failed |-> FALSE,
     alarmCalls |-> 0, alarmArg |-> -1, end_time |-> -1, plays |-> 0]

Running(e) == e.phase \notin {"done", "abandoned"}

\* a thread without the try/except: the exception ends it
OnTtsFailure_dies == "done"

\* where the thread goes after `except Exception`
OnTtsFailure == "alarm"

\* line 46: end_time, with -1 for None
EndTime(t, repeat_for) == IF repeat_for > 0 THEN t + repeat_for ELSE -1

\* a loop without the `if not end_time: break` of lines 49-50
PlayLoopEnds_timed(e, t) == e.end_time # -1 /\ t >= e.end_time

\* lines 49-52: the two ways out of the `while True` of play_wave
PlayLoopEnds(e, t) == e.end_time = -1 \/ t >= e.end_time

\* a loop over range(repeat - 1)
SayDone_short(e) == e.said >= e.repeat - 1

\* the for loop over range(repeat) has finished
SayDone(e) == e.said >= e.repeat

\* a load_wave whose first branch falls through to the second
SoundWarnings_fallthrough(sound) ==
    IF sound = "ok" THEN 0 ELSE IF sound = "missing" THEN 2 ELSE 1

\* load_wave, lines 32-40: one [WARN] line when the file is missing, one when
\* it cannot be loaded, none otherwise
SoundWarnings(sound) == IF sound = "ok" THEN 0 ELSE 1

Init ==
    /\ pc = "start"
    /\ exitReason = "none"
    /\ cap = "none"
    /\ alert_wave = "None"
    /\ prev_state = "None"
    /\ last_alert_time = 0
    /\ clock = 0
    /\ report \in ReportFiles
    /\ episodes = <<>>
    /\ warnings = [sound |-> 0, tts |-> 0]
    /\ nSamples = 0
    /\ state = "None"
    /\ taken = FALSE
    /\ nPresent = 0
    /\ firstPresentAt = -1
    /\ appendFailed = FALSE
    /\ now = -1

\* main(), lines 74-93: everything before the loop
Start ==
    /\ pc = "start"
    /\ \E cascade_ok \in BOOLEAN, sound \in {"missing", "bad", "ok"}, cam_ok \in BOOLEAN :
        /\ report' = ensure_report_exists(report)
        /\ IF ~cascade_ok
             THEN /\ pc' = "exited"
                  /\ exitReason' = "no_cascade"
                  /\ UNCHANGED <<cap, alert_wave, warnings>>
             ELSE /\ alert_wave' = IF sound = "ok" THEN "wave" ELSE "None"
                  /\ warnings' = [warnings EXCEPT !.sound = @ + SoundWarnings(sound)]
                  /\ IF cam_ok
                       THEN /\ cap' = "open"
                            /\ pc' = "loop"
                            /\ UNCHANGED exitReason
                       ELSE /\ cap' = "failed"
                            /\ pc' = "exited"
                            /\ exitReason' = "no_camera"
    /\ UNCHANGED <<prev_state, last_alert_time, clock, episodes, nSamples, state,
                   taken, nPresent, firstPresentAt, appendFailed, now>>

\* a daemon thread at the exit of the process
Abandoned(e) == IF Running(e) THEN [e EXCEPT !.phase = "abandoned"] ELSE e

\* leaving the loop: break or exception, then the finally clause, then the
\* return of main() and the exit of the process
LeaveLoop(reason) ==
    /\ pc' = "exited"
    /\ exitReason' = reason
    /\ cap' = ReleaseOnExit(reason)

\* the threads when the pass ends in state p of main()
AtEndOfPass(p, eps) ==
    IF p = "exited" THEN [i \in DOMAIN eps |-> Abandoned(eps[i])] ELSE eps

\* the end of the loop body, lines 140-142
WaitKey(key_q) ==
    IF key_q THEN LeaveLoop("quit")
             ELSE UNCHANGED <<pc, exitReason, cap>>

\* lines 98-101: cap.read() fails
ReadFails ==
    /\ LeaveLoop("read_fail")
    /\ episodes' = AtEndOfPass(pc', episodes)
    /\ UNCHANGED <<prev_state, last_alert_time, report, nSamples, state,
                   taken, nPresent, firstPresentAt, appendFailed, now>>

\* lines 103-126, and lines 127-142 unless a thread is started: a frame
\* with face_count faces; key_q: 'q' is pressed at waitKey
Frame(face_count, key_q) ==
    /\ nSamples < MaxSamples
    /\ nSamples' = nSamples + 1
    /\ state' = StateOf(face_count)
    /\ LET st      == StateOf(face_count)
           t       == clock
           changed == StateChanged(st, prev_state)
           \* line 117 is reached
           logs    == changed /\ LogsOn(st)
       IN  \E io_ok \in IF logs THEN BOOLEAN ELSE {TRUE} :
           LET \* the exception leaves the loop at line 117
               raised  == logs /\ log_event_raises(io_ok)
               \* line 120 is reached
               decides == changed /\ ~raised /\ st = "human"
               \* lines 122-126 are reached
               alerts  == decides /\ CooldownElapsed(t, last_alert_time)
               \* line 132 is reached in this step
               done    == changed /\ ~raised /\ ~alerts
           IN  /\ taken' = changed
               /\ appendFailed' = (appendFailed \/ (logs /\ ~io_ok))
               /\ report' = IF logs /\ io_ok
                              THEN log_event(report, t, st, face_count, "Faces detected")
                              ELSE report
               /\ last_alert_time' = IF decides /\ ~alerts
                                       THEN AlertTimeWhenSuppressed(t, last_alert_time)
                                       ELSE last_alert_time
               /\ prev_state' = IF done THEN st ELSE prev_state
               /\ nPresent' = IF done /\ st = "human" THEN nPresent + 1 ELSE nPresent
               /\ firstPresentAt' = IF done /\ st = "human" /\ firstPresentAt = -1
                                      THEN t ELSE firstPresentAt
               /\ IF alerts
                    THEN /\ pc' = "started"
                         /\ now' = t
                         /\ episodes' = Append(episodes,
                                               NewEpisode(t, alert_wave,
                                                          HUMAN_ALERT_DURATION,
                                                          SPEAK_REPEAT))
                         /\ UNCHANGED <<exitReason, cap>>
                    ELSE /\ IF raised THEN LeaveLoop("exception") ELSE WaitKey(key_q)
                         /\ episodes' = AtEndOfPass(pc', episodes)
                         /\ UNCHANGED now

\* the top of a pass through the loop body: lines 98-142, or lines 98-126
\* when the pass starts a thread
Iterate ==
    /\ DriverRunnable
    /\ pc = "loop"
    /\ \/ ReadFails
       \/ \E face_count \in 0..MaxFaces, key_q \in BOOLEAN : Frame(face_count, key_q)
    /\ UNCHANGED <<alert_wave, clock, warnings>>

\* lines 127-142: the rest of a pass that has started a thread
AfterStart ==
    /\ DriverRunnable
    /\ pc = "started"
    /\ last_alert_time' = AlertTimeAfterStart(now, last_alert_time)
    /\ prev_state' = state
    /\ nPresent' = nPresent + 1
    /\ firstPresentAt' = IF firstPresentAt = -1 THEN now ELSE firstPresentAt
    /\ now' = -1
    /\ \E key_q \in BOOLEAN :
         IF key_q THEN LeaveLoop("quit")
                  ELSE pc' = "loop" /\ UNCHANGED <<exitReason, cap>>
    /\ episodes' = AtEndOfPass(pc', episodes)
    /\ UNCHANGED <<alert_wave, clock, warnings, report, nSamples, state, taken,
                   appendFailed>>

\* line 53: time.sleep(1) returns when a second has passed
Slept(e) == IF e.phase = "sleep" THEN [e EXCEPT !.phase = "play"] ELSE e

\* a second passes; the clock matters only while the program runs
Tick ==
    /\ pc # "exited"
    /\ clock < MaxTime
    /\ clock' = clock + 1
    /\ episodes' = [i \in DOMAIN episodes |-> Slept(episodes[i])]
    /\ UNCHANGED <<pc, exitReason, cap, alert_wave, prev_state, last_alert_time,
                   report, warnings, nSamples, state, taken, nPresent,
                   firstPresentAt, appendFailed, now>>

\* ---------- speak_message_then_alarm, lines 55-65, and play_wave, lines 42-53 ----------
EpVars == <<pc, exitReason, cap, alert_wave, prev_state, last_alert_time, clock,
            report, nSamples, state, taken, nPresent, firstPresentAt,
            appendFailed, now>>

\* daemon threads run only while the process is alive
Alive == pc \in InLoop

\* the except clause, line 62-63: warn, then fall through to the alarm
TtsFailed(i) ==
    /\ episodes' = [episodes EXCEPT ![i].failed = TRUE, ![i].phase = OnTtsFailure]
    /\ warnings' = [warnings EXCEPT !.tts = @ + 1]

\* line 58: engine = pyttsx3.init()
EpInit(i) ==
    /\ Alive
    /\ episodes[i].phase = "init"
    /\ \E ok \in BOOLEAN :
         IF ok THEN /\ episodes' = [episodes EXCEPT ![i].phase = "say"]
                    /\ UNCHANGED warnings
               ELSE TtsFailed(i)
    /\ UNCHANGED EpVars

\* lines 59-60: one engine.say(message) of the for loop
EpSay(i) ==
    /\ Alive
    /\ episodes[i].phase = "say"
    /\ ~SayDone(episodes[i])
    /\ \E ok \in BOOLEAN :
         IF ok THEN /\ episodes' = [episodes EXCEPT ![i].said = @ + 1]
                    /\ UNCHANGED warnings
               ELSE TtsFailed(i)
    /\ UNCHANGED EpVars

\* line 61: engine.runAndWait() returns when every queued utterance was spoken
EpRunAndWait(i) ==
    /\ Alive
    /\ episodes[i].phase = "say"
    /\ SayDone(episodes[i])
    /\ \E ok \in BOOLEAN :
         IF ok THEN /\ episodes' = [episodes EXCEPT ![i].spoken = episodes[i].said,
                                                    ![i].phase = "alarm"]
                    /\ UNCHANGED warnings
               ELSE TtsFailed(i)
    /\ UNCHANGED EpVars

\* line 65 and lines 44-46: the call of play_wave(wave, duration)
EpAlarm(i) ==
    /\ Alive
    /\ episodes[i].phase = "alarm"
    /\ LET e == episodes[i]
           called == [e EXCEPT !.alarmCalls = @ + 1, !.alarmArg = e.duration]
       IN  episodes' = [episodes EXCEPT ![i] =
                IF e.wave = "None"
                  THEN [called EXCEPT !.phase = "done"]
                  ELSE [called EXCEPT !.phase = "play",
                                      !.end_time = EndTime(clock, e.duration)]]
    /\ UNCHANGED warnings
    /\ UNCHANGED EpVars

\* lines 48-53: wave.play(), then leave the loop or sleep one second
EpPlay(i) ==
    /\ Alive
    /\ episodes[i].phase = "play"
    /\ LET e == episodes[i]
           played == [e EXCEPT !.plays = IF @ < MaxPlays THEN @ + 1 ELSE @]
       IN  episodes' = [episodes EXCEPT ![i] =
                IF PlayLoopEnds(e, clock)
                  THEN [played EXCEPT !.phase = "done"]
                  ELSE [played EXCEPT !.phase = "sleep"]]
    /\ UNCHANGED warnings
    /\ UNCHANGED EpVars

Next ==
    \/ Start
    \/ Iterate
    \/ AfterStart
    \/ Tick
    \/ \E i \in DOMAIN episodes : EpInit(i)
    \/ \E i \in DOMAIN episodes : EpSay(i)
    \/ \E i \in DOMAIN episodes : EpRunAndWait(i)
    \/ \E i \in DOMAIN episodes : EpAlarm(i)
    \/ \E i \in DOMAIN episodes : EpPlay(i)

Spec == Init /\ [][Next]_vars

\* the steps of the threads that wait for nothing but the scheduler
EpRuns ==
    \E i \in DOMAIN episodes : EpInit(i) \/ EpSay(i) \/ EpRunAndWait(i) \/ EpAlarm(i)

\* while some thread can run, one of them is scheduled; nothing is assumed of
\* the camera, the user or the clock
FairSpec == Spec /\ WF_vars(EpRuns)

\* ---------- play_wave alone ----------
Durations == -1 .. MaxDuration

\* an alert thread that has finished its speech and is about to call
\* play_wave(wave, repeat_for)
AtPlayWave(t, wave, repeat_for) ==
    [NewEpisode(t, wave, repeat_for, SPEAK_REPEAT) EXCEPT
        !.phase = "alarm", !.said = SPEAK_REPEAT, !.spoken = SPEAK_REPEAT]

\* the loop after a first frame with a face at time ALERT_COOLDOWN, with the
\* thread it started at the call of play_wave, for every sound and duration
PlayInit ==
    /\ pc = "loop"
    /\ exitReason = "none"
    /\ cap = "open"
    /\ alert_wave \in {"None", "wave"}
    /\ prev_state = "human"
    /\ last_alert_time = ALERT_COOLDOWN
    /\ clock = ALERT_COOLDOWN
    /\ report = log_event(ensure_report_exists([exists |-> FALSE, lines |-> <<>>]),
                          ALERT_COOLDOWN, "human", 1, "Faces detected")
    /\ \E d \in Durations : episodes = <<AtPlayWave(ALERT_COOLDOWN, alert_wave, d)>>
    /\ warnings = [sound |-> SoundWarnings(IF alert_wave = "wave" THEN "ok" ELSE "missing"),
                   tts |-> 0]
    /\ nSamples = 1
    /\ state = "human"
    /\ taken = TRUE
    /\ nPresent = 1
    /\ firstPresentAt = ALERT_COOLDOWN
    /\ appendFailed = FALSE
    /\ now = -1

\* time is counted from the call of play_wave
PlayTick ==
    /\ \A i \in DOMAIN episodes : episodes[i].phase # "alarm"
    /\ Tick

PlayRuns == \E i \in DOMAIN episodes : EpAlarm(i) \/ EpPlay(i)

PlayNext ==
    \/ PlayTick
    \/ \E i \in DOMAIN episodes : EpAlarm(i)
    \/ \E i \in DOMAIN episodes : EpPlay(i)

\* time advances and the thread is scheduled
PlaySpec == PlayInit /\ [][PlayNext]_vars /\ WF_vars(PlayTick) /\ WF_vars(PlayRuns)

\* ======================= Properties =======================

SampleStep == nSamples' = nSamples + 1

\* C1: a frame takes the state-change branch exactly when its state differs
\* from the remembered one; the first frame always does; a frame that takes it
\* and is not cut short by an exception records the change and remembers the
\* new state, at the end of its pass; a frame that does not take it changes
\* nothing.
C1_BranchIffStateDiffers ==
    /\ [][SampleStep =>
            /\ taken' = (state' # prev_state)
            /\ (nSamples = 0 => taken')
            /\ (taken' /\ exitReason' # "exception" /\ pc' # "started" =>
                    prev_state' = state')
            /\ (~taken' => /\ UNCHANGED <<prev_state, nPresent, report, last_alert_time>>
                           /\ Len(episodes') = Len(episodes))]_vars
    /\ [](pc = "started" => taken /\ state # prev_state)
    /\ [][(pc = "started" /\ pc' # "started") => prev_state' = state]_vars

\* three frames with a face: the first changed the state, the others did not
C1_Witness ==
    /\ nSamples = 3
    /\ ~taken
    /\ nPresent = 1
    /\ state = "human"
    /\ prev_state = "human"

\* C2: the report holds one data row per change into "human", completed or
\* being completed by the pass in progress, and every data row is a "human"
\* row of a frame with at least one face.
C2_RowsEqualPresentTransitions ==
    /\ Len(DataRows(report)) = nPresent + (IF pc = "started" THEN 1 ELSE 0)
    /\ \A k \in 1..Len(DataRows(report)) :
            /\ DataRows(report)[k].detection = "human"
            /\ DataRows(report)[k].face_count > 0

\* no face, face, no face: three changes of state, one row
C2_Witness ==
    /\ nSamples = 3
    /\ prev_state = "no_face"
    /\ taken
    /\ nPresent = 1
    /\ Len(DataRows(report)) = 1

\* C3: an alert thread is started only when now - last_alert_time is at least
\* ALERT_COOLDOWN, one at a time, and any two starts are at least
\* ALERT_COOLDOWN apart.
C3_StartsRespectCooldown ==
    /\ [](\A i, j \in DOMAIN episodes :
            i < j => episodes[j].startedAt - episodes[i].startedAt >= ALERT_COOLDOWN)
    /\ [][Len(episodes') # Len(episodes) =>
            /\ Len(episodes') = Len(episodes) + 1
            /\ clock - last_alert_time >= ALERT_COOLDOWN]_vars

\* two changes into "human" less than ALERT_COOLDOWN apart, one alert
C3_Witness ==
    /\ nPresent = 2
    /\ Len(episodes) = 1
    /\ episodes[1].startedAt = firstPresentAt
    /\ prev_state = "human"
    /\ clock - firstPresentAt < ALERT_COOLDOWN

C5_FirstPresentAlwaysAlerts ==
    nPresent >= 1 => Len(episodes) >= 1

AfterSpeech == {"alarm", "play", "sleep", "done"}

\* C6 (as stated): in every alert thread that has called play_wave, say was
\* called exactly repeat times and all of it was spoken, and play_wave got
\* HUMAN_ALERT_DURATION.
C6_SpeakExactlyRepeatTimes ==
    \A i \in DOMAIN episodes :
        episodes[i].alarmCalls >= 1 =>
            /\ episodes[i].said = episodes[i].repeat
            /\ episodes[i].spoken = episodes[i].repeat
            /\ episodes[i].alarmArg = HUMAN_ALERT_DURATION

\* C6 (amended): say is never called more than repeat times and never after
\* the speech stage; a thread whose speech did not fail has called say exactly
\* repeat times and runAndWait has returned before play_wave is called; a
\* thread whose speech failed has skipped the rest; play_wave is not called
\* during the speech stage and gets HUMAN_ALERT_DURATION.
C6_SpeakRepeatTimesUnlessFailed ==
    \A i \in DOMAIN episodes :
        LET e == episodes[i] IN
        /\ e.repeat = SPEAK_REPEAT
        /\ e.said <= e.repeat
        /\ e.spoken \in {0, e.said}
        /\ (e.phase \in {"init", "say"} => e.alarmCalls = 0 /\ e.plays = 0 /\ ~e.failed)
        /\ (e.phase \in AfterSpeech /\ ~e.failed =>
                e.said = e.repeat /\ e.spoken = e.repeat)
        /\ (e.failed => e.spoken = 0)
        /\ (e.alarmCalls >= 1 => e.alarmArg = HUMAN_ALERT_DURATION)

\* a thread that spoke twice and then called play_wave(wave, 30)
C6_Witness ==
    \E i \in DOMAIN episodes :
        /\ ~episodes[i].failed
        /\ episodes[i].said = 2
        /\ episodes[i].spoken = 2
        /\ episodes[i].alarmCalls = 1
        /\ episodes[i].alarmArg = 30
        /\ episodes[i].plays = 1

\* C7 (as stated): every alert thread that has stopped has called play_wave
\* exactly once.
C7_EveryEpisodeReachesAlarm ==
    \A i \in DOMAIN episodes :
        ~Running(episodes[i]) => episodes[i].alarmCalls = 1

DriverVars == <<pc, exitReason, cap, prev_state, last_alert_time, report, nSamples,
                state, taken, nPresent, firstPresentAt, appendFailed, now>>

PastSpeech(e) == e.alarmCalls = 1 \/ e.phase = "abandoned"

\* C7 (amended): a failed speech stage leads to the alarm stage; play_wave is
\* called at most once, and exactly once by every thread that ran to its end;
\* no step of a thread touches the loop; and every thread started calls
\* play_wave unless the process exits first: a thread that has called it or
\* was abandoned stays so, and again and again all threads started are so.
C7_AlarmUnlessProcessExits ==
    /\ [](\A i \in DOMAIN episodes :
            LET e == episodes[i] IN
            /\ e.alarmCalls <= 1
            /\ (e.phase \in {"play", "sleep", "done"} => e.alarmCalls = 1)
            /\ (e.failed => e.phase \in AfterSpeech \cup {"abandoned"}))
    /\ [][(episodes' # episodes /\ Len(episodes') = Len(episodes) /\ pc' = pc)
            => UNCHANGED DriverVars]_vars
    /\ [][\A i \in DOMAIN episodes : PastSpeech(episodes[i]) => PastSpeech(episodes'[i])]_vars
    /\ []<>(\A i \in DOMAIN episodes : PastSpeech(episodes[i]))

\* a thread whose speech failed and that played the alarm
C7_Witness ==
    \E i \in DOMAIN episodes :
        /\ episodes[i].failed
        /\ episodes[i].said = 1
        /\ episodes[i].alarmCalls = 1
        /\ episodes[i].plays >= 1

\* C8: while alert threads are speaking or playing, the loop can read and
\* process the next frame, and a pass that has started a thread can go on
\* whatever the thread does; the step that starts a thread runs none of its
\* steps and leaves main() in the loop.
C8_DriverNeverBlocked ==
    /\ []((pc = "loop" /\ nSamples < MaxSamples
                /\ \E i \in DOMAIN episodes : Running(episodes[i]))
            => ENABLED (Iterate /\ SampleStep))
    /\ [](pc = "started" => ENABLED AfterStart)
    /\ [][Len(episodes') # Len(episodes) =>
            /\ Len(episodes') = Len(episodes) + 1
            /\ episodes'[Len(episodes')].said = 0
            /\ episodes'[Len(episodes')].alarmCalls = 0
            /\ pc' = "started"
            /\ episodes'[Len(episodes')].phase = "init"
            /\ SubSeq(episodes', 1, Len(episodes)) = episodes]_vars

\* the loop handled a frame while a thread was sleeping between two plays
C8_Witness ==
    /\ pc = "loop"
    /\ nSamples = 2
    /\ prev_state = "no_face"
    /\ Len(episodes) = 1
    /\ episodes[1].phase = "sleep"

\* C9: a failed append ends the loop with the exception; the step in which it
\* fails appends nothing and starts no alert thread, and no frame is
\* processed after it.
C9_AppendFailureSurfaces ==
    /\ [](appendFailed => pc = "exited" /\ exitReason = "exception")
    /\ [][(appendFailed' /\ ~appendFailed) =>
            /\ Len(episodes') = Len(episodes)
            /\ report' = report
            /\ UNCHANGED <<prev_state, last_alert_time>>]_vars
    /\ [][appendFailed =>
            /\ UNCHANGED <<nSamples, report, prev_state, last_alert_time>>
            /\ Len(episodes') = Len(episodes)]_vars

\* the append failed on a change into "human" after an earlier alert
C9_Witness ==
    /\ appendFailed
    /\ exitReason = "exception"
    /\ taken
    /\ state = "human"
    /\ prev_state = "no_face"
    /\ Len(episodes) = 1
    /\ nPresent = 1
    /\ Len(DataRows(report)) = 1

LoopExits == {"read_fail", "quit", "exception"}

\* C10: once the loop is left, by a failed read, the quit key or an
\* exception, the camera is released, and from then on no frame is processed,
\* nothing is appended to the report and no alert thread is started.
C10_ReleaseOnEveryExit ==
    /\ [](exitReason \in LoopExits <=> cap = "released")
    /\ [](exitReason \in LoopExits => pc = "exited")
    /\ [][(pc \in InLoop /\ pc' \notin InLoop) =>
            exitReason' \in LoopExits /\ cap' = "released"]_vars
    /\ [][(pc = "exited") =>
            /\ UNCHANGED <<nSamples, report, cap, prev_state, last_alert_time>>
            /\ Len(episodes') = Len(episodes)]_vars

\* a read failed after two frames and an alert
C10_Witness ==
    /\ exitReason = "read_fail"
    /\ pc = "exited"
    /\ cap = "released"
    /\ nSamples = 2
    /\ Len(episodes) = 1

HeaderCount(f) == Len(SelectSeq(f.lines, LAMBDA l : l.kind = "header"))

\* C11 (as stated): after the initialisation the report file starts with the
\* header row, whatever it was before.
C11_HeaderAfterInit ==
    pc # "start" => (report.lines # <<>> /\ Head(report.lines) = Header)

\* C11 (amended): the initialisation creates an absent file with the header
\* row and leaves an existing file as it is, with or without a header; doing
\* it again changes nothing; the file never holds more than one header, and
\* a header it holds is its first line, before every appended row.
C11_InitIdempotent ==
    /\ [][(pc = "start" /\ pc' # "start") =>
            /\ (~report.exists => report' = [exists |-> TRUE, lines |-> <<Header>>])
            /\ (report.exists => report' = report)
            /\ ensure_report_exists(report') = report']_vars
    /\ [](pc # "start" => report.exists)
    /\ [](HeaderCount(report) <= 1)
    /\ [](HeaderCount(report) = 1 => Head(report.lines) = Header)

\* the header, then the row of a change into "human"
C11_Witness ==
    /\ pc = "loop"
    /\ Len(report.lines) = 2
    /\ Head(report.lines) = Header
    /\ report.lines[2].kind = "row"

\* C12 (as stated): over a whole run at most one warning about the sound and
\* at most one warning about the speech are printed.
C12_WarnOncePerCapability ==
    warnings.sound <= 1 /\ warnings.tts <= 1

\* C12 (amended): at most one warning about the sound is printed, at startup
\* and never after; one warning about the speech is printed by each alert
\* thread whose speech fails, one at a time, so there are as many as failed
\* threads.
C12_WarnOncePerEpisode ==
    /\ [](warnings.sound <= 1)
    /\ [](warnings.sound = 1 <=> (pc # "start" /\ exitReason # "no_cascade"
                                    /\ alert_wave = "None"))
    /\ [](warnings.tts = Cardinality({i \in DOMAIN episodes : episodes[i].failed}))
    /\ [][warnings'.tts # warnings.tts =>
            /\ warnings'.tts = warnings.tts + 1
            /\ warnings'.sound = warnings.sound]_vars

\* two alert threads, both with a failed speech, and no sound
C12_Witness ==
    /\ warnings.sound = 1
    /\ warnings.tts = 2
    /\ Len(episodes) = 2
    /\ episodes[1].failed /\ episodes[2].failed

\* C13 (as stated): no alert thread has begun to run while last_alert_time
\* is older than the time of the change that started it.
C13_NoStaleAlertTime ==
    \A i \in DOMAIN episodes :
        episodes[i].phase # "init" => last_alert_time >= episodes[i].startedAt

\* C13 (amended): the pass that starts a thread sets last_alert_time to the
\* time of the change right after Thread.start(): until then, and only then,
\* last_alert_time is older than the start of the newest thread, whatever
\* that thread has done meanwhile; no frame is read in between, so at the top
\* of every pass last_alert_time is the start of the newest thread, and a
\* thread is started only ALERT_COOLDOWN or more after it.
C13_AlertTimeSetInSamePass ==
    /\ [](pc = "started" =>
            /\ now = episodes[Len(episodes)].startedAt
            /\ last_alert_time < now)
    /\ []((pc # "started" /\ episodes # <<>>) =>
            last_alert_time = episodes[Len(episodes)].startedAt)
    /\ [][(pc = "started" /\ pc' # "started") => last_alert_time' = now]_vars
    /\ [][(pc = "started") => ~SampleStep]_vars
    /\ [][(SampleStep /\ episodes # <<>> /\ Len(episodes') # Len(episodes)) =>
            clock - episodes[Len(episodes)].startedAt >= ALERT_COOLDOWN]_vars

\* a second change into "human" came while the first thread was speaking and
\* was measured against the start of that thread
C13_Witness ==
    /\ pc = "loop"
    /\ nPresent = 2
    /\ Len(episodes) = 1
    /\ episodes[1].phase = "say"
    /\ last_alert_time = episodes[1].startedAt
    /\ clock - last_alert_time < ALERT_COOLDOWN

\* the next step of thread i
EpStep(i) == EpInit(i) \/ EpSay(i) \/ EpRunAndWait(i) \/ EpAlarm(i) \/ EpPlay(i)

\* C14: the cooldown limits starts, not overlap: a change into "human"
\* ALERT_COOLDOWN or more after the last start starts a thread whatever the
\* earlier threads are doing; and every thread that is not sleeping can take
\* its next step whatever the others are doing, so the steps of two threads
\* in flight may come in any order.
C14_StartsNotOverlapLimited ==
    /\ [][(SampleStep /\ taken' /\ state' = "human" /\ ~appendFailed'
                /\ clock - last_alert_time >= ALERT_COOLDOWN)
            => /\ Len(episodes') = Len(episodes) + 1
               /\ SubSeq(episodes', 1, Len(episodes)) = episodes]_vars
    /\ [](\A i \in DOMAIN episodes :
            (Alive /\ episodes[i].phase \in {"init", "say", "alarm", "play"})
                => ENABLED EpStep(i))
    /\ [](HUMAN_ALERT_DURATION > ALERT_COOLDOWN)

\* two threads in flight: the first between two plays of its alarm, the
\* second between its two utterances
C14_Witness ==
    /\ Len(episodes) = 2
    /\ episodes[1].phase = "sleep"
    /\ episodes[1].plays >= 1
    /\ episodes[2].phase = "say"
    /\ episodes[2].said = 1
    /\ episodes[2].startedAt - episodes[1].startedAt < HUMAN_ALERT_DURATION

\* C15: a change into "human" that comes less than ALERT_COOLDOWN after
\* last_alert_time, and whose row was appended, starts no thread, leaves
\* last_alert_time and the threads in flight as they are, prints no warning,
\* raises nothing, and is remembered: prev_state becomes "human" in the same
\* step and the loop goes on unless the quit key is pressed.
C15_SuppressedSilently ==
    [][(SampleStep /\ taken' /\ state' = "human" /\ ~appendFailed'
            /\ clock - last_alert_time < ALERT_COOLDOWN)
        => /\ Len(episodes') = Len(episodes)
           /\ last_alert_time' = last_alert_time
           /\ prev_state' = "human"
           /\ nPresent' = nPresent + 1
           /\ warnings' = warnings
           /\ exitReason' \in {"none", "quit"}
           /\ (exitReason' = "none" => pc' = "loop" /\ episodes' = episodes)]_vars

\* face, no face, face within the cooldown: one thread, two rows, and
\* last_alert_time still the time of the first change
C15_Witness ==
    /\ pc = "loop"
    /\ nSamples = 3
    /\ taken
    /\ state = "human"
    /\ prev_state = "human"
    /\ nPresent = 2
    /\ Len(DataRows(report)) = 2
    /\ Len(episodes) = 1
    /\ last_alert_time = episodes[1].startedAt
    /\ clock > last_alert_time

\* C16 (as stated): an alert thread that has finished has played the alarm
\* at least once.
C16_PlaysAtLeastOnce ==
    \A i \in DOMAIN episodes : episodes[i].phase = "done" => episodes[i].plays >= 1

\* C16 (amended): without a sound play_wave returns at once and plays
\* nothing; with a sound it plays at least once, exactly once when
\* repeat_for <= 0, and otherwise again and again, one second apart, until
\* repeat_for seconds have passed since the call; as time advances and the
\* thread is scheduled, it finishes.
C16_PlayWaveTerminates ==
    /\ [](\A i \in DOMAIN episodes :
            LET e == episodes[i] IN
            /\ (e.wave = "None" => e.plays = 0 /\ e.phase \in {"alarm", "done"})
            /\ (e.wave = "wave" /\ e.phase = "done" => e.plays >= 1)
            /\ (e.wave = "wave" /\ e.duration <= 0 =>
                    /\ e.plays <= 1
                    /\ e.phase \in {"alarm", "play", "done"}
                    /\ (e.phase = "done" => e.plays = 1))
            /\ (e.wave = "wave" /\ e.duration > 0 /\ e.alarmCalls = 1 =>
                    /\ e.end_time = e.startedAt + e.duration
                    /\ (e.phase = "sleep" => clock < e.end_time /\ e.plays >= 1)
                    /\ (e.phase = "done" => clock >= e.end_time /\ e.plays >= 1)))
    /\ <>(\A i \in DOMAIN episodes : episodes[i].phase = "done")

\* play_wave(wave, 2) has returned after its plays, two seconds after the call
C16_Witness ==
    /\ Len(episodes) = 1
    /\ episodes[1].wave = "wave"
    /\ episodes[1].duration = 2
    /\ episodes[1].phase = "done"
    /\ episodes[1].plays = MaxPlays
    /\ clock = episodes[1].end_time

\* a pass that took the state-change branch reaches line 132
RecordsChange ==
    \/ SampleStep /\ taken' /\ pc' # "started" /\ ~appendFailed'
    \/ pc = "started" /\ pc' # "started"

\* C17: prev_state is None before the first frame and only then, but for a
\* first pass that has just started a thread or was cut short by a failed
\* append; it never becomes None again; it changes only at line 132, to the
\* state of the frame; and every pass that reaches line 132 changes it, so
\* consecutive changes go to "human" and "no_face" in turn.
C17_PresenceStateMachine ==
    /\ [](prev_state \in {"None", "human", "no_face"})
    /\ [](nSamples = 0 => prev_state = "None")
    /\ []((prev_state = "None" /\ nSamples > 0) =>
            /\ nSamples = 1
            /\ (pc = "started" \/ exitReason = "exception"))
    /\ [][(prev_state # "None") => prev_state' # "None"]_vars
    /\ [][(prev_state' # prev_state) =>
            /\ RecordsChange
            /\ prev_state' = state'
            /\ prev_state' \in {"human", "no_face"}]_vars
    /\ [][RecordsChange =>
            /\ prev_state' # prev_state
            /\ prev_state' = state'
            /\ (prev_state = "human" => prev_state' = "no_face")
            /\ (prev_state = "no_face" => prev_state' = "human")]_vars

\* None, then "human", "no_face" and "human" again, each change alerted or
\* not
C17_Witness ==
    /\ nSamples = 3
    /\ taken
    /\ prev_state = "human"
    /\ nPresent = 2
    /\ Len(DataRows(report)) = 2
    /\ DataRows(report)[2].ts > DataRows(report)[1].ts

\* C18: last_alert_time changes only in the pass that has started a thread,
\* at line 127, to the time of a change into "human" that came ALERT_COOLDOWN
\* or more after its old value; no step of a thread and no passing of time
\* changes last_alert_time or prev_state; a frame without a face, a frame
\* that changes nothing and a change within the cooldown leave it as it was.
C18_AlertTimeWrittenByDriverOnly ==
    /\ [][(last_alert_time' # last_alert_time) =>
            /\ pc = "started" /\ pc' # "started"
            /\ state = "human" /\ taken
            /\ last_alert_time' = now
            /\ now - last_alert_time >= ALERT_COOLDOWN
            /\ Len(episodes') = Len(episodes)]_vars
    /\ [][(episodes' # episodes /\ Len(episodes') = Len(episodes) /\ pc' = pc) =>
            UNCHANGED <<last_alert_time, prev_state>>]_vars
    /\ [][(SampleStep /\ (state' = "no_face" \/ ~taken'
                            \/ clock - last_alert_time < ALERT_COOLDOWN)) =>
            /\ last_alert_time' = last_alert_time
            /\ pc' # "started"]_vars

\* a thread ran to its end without a sound and the state changed to
\* "no_face": last_alert_time is still the start of the thread
C18_Witness ==
    /\ pc = "loop"
    /\ prev_state = "no_face"
    /\ Len(episodes) = 1
    /\ episodes[1].phase = "done"
    /\ episodes[1].failed
    /\ last_alert_time = episodes[1].startedAt
    /\ clock > last_alert_time

\* C19: there are never more alert threads than data rows; the step that
\* starts a thread has appended the row of its change, with the same time; a
\* failed append starts no thread; and a change into "human" within the
\* cooldown appends its row all the same.
C19_LogPrecedesAlert ==
    /\ [](Len(episodes) <= Len(DataRows(report)))
    /\ [][(Len(episodes') # Len(episodes)) =>
            /\ Len(DataRows(report')) = Len(DataRows(report)) + 1
            /\ DataRows(report')[Len(DataRows(report'))].ts
                    = episodes'[Len(episodes')].startedAt
            /\ DataRows(report')[Len(DataRows(report'))].detection = "human"
            /\ ~appendFailed']_vars
    /\ [][(SampleStep /\ taken' /\ state' = "human" /\ report' = report) =>
            /\ appendFailed'
            /\ Len(episodes') = Len(episodes)]_vars
    /\ [][(SampleStep /\ taken' /\ state' = "human" /\ ~appendFailed'
                /\ clock - last_alert_time < ALERT_COOLDOWN) =>
            /\ Len(DataRows(report')) = Len(DataRows(report)) + 1
            /\ DataRows(report')[Len(DataRows(report'))].ts = clock
            /\ Len(episodes') = Len(episodes)]_vars

\* two rows and one thread: the second change into "human" came within the
\* cooldown and was logged
C19_Witness ==
    /\ Len(episodes) = 1
    /\ Len(DataRows(report)) = 2
    /\ DataRows(report)[1].ts = episodes[1].startedAt
    /\ DataRows(report)[2].ts - episodes[1].startedAt < ALERT_COOLDOWN
    /\ ~appendFailed

====
